---- MODULE Spec2Model ----
(***************************************************************************)
(* Model of src/src/radix/radix.rs: the byte extractor (trait Radix), and  *)
(* the two LSB radix sort engines radix_sort_int and radix_sort_float.     *)
(*                                                                         *)
(* A value of a w-byte type is its bit pattern, held as a little-endian    *)
(* tuple of w bytes (element 1 is the least-significant byte).  Signed     *)
(* integers and floats are transmuted to the unsigned type of the same     *)
(* width before any byte is extracted, so the bit pattern is all the       *)
(* engines ever read.  Rust indexes from 0: counts and offsets are         *)
(* functions on 0..NUM_BUCKETS-1, and index i of a Vec is element i+1 of   *)
(* the sequence that models it.                                            *)
(***************************************************************************)
EXTENDS Integers, Sequences, FiniteSets

MASK == 255
SHIFT_BITS == 8
NUM_BUCKETS == 256
FIRST_NEG_BUCKET == NUM_BUCKETS \div 2

\* Longest input vector explored.
MaxLen == 3

VARIABLES ty, input, vals, vals_buf, counts, offsets, n_iter, k, dest, pc

vars == <<ty, input, vals, vals_buf, counts, offsets, n_iter, k, dest, pc>>

Buckets == 0 .. (NUM_BUCKETS - 1)

(***************************************************************************)
(* The supported element types: the impls generated by radix_for_type! and *)
(* radix_for_type_with_transmute!, with size_of::<T>() in bytes.           *)
(***************************************************************************)
Types ==
    { [kind |-> "unsigned", size |-> 4], [kind |-> "unsigned", size |-> 8],
      [kind |-> "unsigned", size |-> 16],
      [kind |-> "signed", size |-> 4], [kind |-> "signed", size |-> 8],
      [kind |-> "signed", size |-> 16],
      [kind |-> "float", size |-> 4], [kind |-> "float", size |-> 8] }

\* Vec<I: PrimInt> dispatches to radix_sort_int, Vec<F: Float> to radix_sort_float.
Engine(t) == IF t.kind = "float" THEN "float" ELSE "int"

(***************************************************************************)
(* Bit patterns explored: byte w (the most significant) is hi, byte 1 is   *)
(* lo, every byte between is mid.  The wider a type, the more passes the   *)
(* same code runs over it, and the fewer patterns it is explored on.       *)
(***************************************************************************)
Pat(w, hi, mid, lo) ==
    [i \in 1..w |-> IF i = w THEN hi ELSE IF i = 1 THEN lo ELSE mid]

\* f32 / f64 infinity: sign, all-ones exponent, zero mantissa.
Inf(w, sign) ==
    [i \in 1..w |-> IF i = w THEN 127 + 128 * sign
                    ELSE IF i = w - 1 THEN (IF w = 4 THEN 128 ELSE 240)
                    ELSE 0]

Values(t) ==
    { Pat(t.size, 0, 1, 0),          \* low byte 0, the bytes above it 1
      Pat(t.size, 128, 0, 0),        \* signed MIN, -0.0, unsigned 2^(bits-1)
      Pat(t.size, 128, 0, 1),        \* signed MIN+1, same top byte as MIN
      Pat(t.size, 255, 255, 255) }   \* -1, unsigned MAX, a negative NaN
    \cup (IF t.size <= 8
          THEN {Pat(t.size, 127, 255, 255)}   \* signed MAX, a positive NaN
          ELSE {})
    \cup (IF t.size = 4
          THEN {Pat(t.size, 0, 0, 0)}         \* 0, +0.0
          ELSE {})
    \cup (IF t.kind = "float" /\ t.size = 4
          THEN {Inf(t.size, 0), Inf(t.size, 1)}
          ELSE {})

SeqsUpTo(S, n) == UNION { [1..m -> S] : m \in 0..n }

(***************************************************************************)
(* Byte extractor.                                                         *)
(***************************************************************************)
\* a & b on the low nbits bits (0 absorbs and all-ones is neutral, which is
\* decided before the bits are walked).
RECURSIVE AndByte(_, _, _)
AndByte(a, b, nbits) ==
    IF nbits = 0 \/ a = 0 \/ b = 0 THEN 0
    ELSE IF nbits = SHIFT_BITS /\ a = MASK THEN b
    ELSE IF nbits = SHIFT_BITS /\ b = MASK THEN a
    ELSE (a % 2) * (b % 2) + 2 * AndByte(a \div 2, b \div 2, nbits - 1)

\* x & y on equal-width patterns.
BitAnd(x, y) == [i \in 1..Len(x) |-> AndByte(x[i], y[i], SHIFT_BITS)]

\* x << offset, x >> offset (logical: the operand is unsigned) for the shifts
\* the engines use, which are whole bytes (shift_bits = n_iter * SHIFT_BITS).
Shl(x, offset) ==
    [i \in 1..Len(x) |->
        IF i - offset \div SHIFT_BITS >= 1 THEN x[i - offset \div SHIFT_BITS] ELSE 0]

Shr(x, offset) ==
    [i \in 1..Len(x) |->
        IF i + offset \div SHIFT_BITS <= Len(x) THEN x[i + offset \div SHIFT_BITS] ELSE 0]

\* MASK as $type
MaskAs(w) == [i \in 1..w |-> IF i = 1 THEN MASK ELSE 0]

\* `as usize` of a pattern (here always below 256: the high bytes are 0).
RECURSIVE AsUsize(_, _)
AsUsize(x, i) ==
    IF i > Len(x) \/ i > 8 THEN 0 ELSE x[i] + NUM_BUCKETS * AsUsize(x, i + 1)

\* Variant of to_radix that shifts the value left and masks the low byte.
to_radix_shift_first(v, offset) ==
    AsUsize(BitAnd(MaskAs(Len(v)), Shl(v, offset)), 1)

to_radix(v, offset) ==
    AsUsize(Shr(BitAnd(Shl(MaskAs(Len(v)), offset), v), offset), 1)

(***************************************************************************)
(* Count and offset tables.                                                *)
(***************************************************************************)
ZeroTable == [b \in Buckets |-> 0]

\* shift_bits = (n_iter * SHIFT_BITS) as u8
ShiftBitsOf(it) == (it * SHIFT_BITS) % 256

\* vals.iter().map(|n| n.to_radix(shift_bits)).for_each(|b| counts[b] += 1),
\* on a table already reset to 0, from element i on.
RECURSIVE CountFrom(_, _, _, _)
CountFrom(cnt, vs, i, shift) ==
    IF i > Len(vs) THEN cnt
    ELSE CountFrom([cnt EXCEPT ![to_radix(vs[i], shift)] = @ + 1], vs, i + 1, shift)

\* The loops over bucket ranges are modelled by what they leave in the table:
\* a sum of counts, to which only the non-zero counts contribute.
NonZero(cnt) == {b \in Buckets : cnt[b] # 0}

RECURSIVE SumOver(_, _)
SumOver(cnt, S) ==
    IF S = {} THEN 0
    ELSE LET b == CHOOSE x \in S : TRUE IN cnt[b] + SumOver(cnt, S \ {b})

\* counts[lo..hi].iter().sum()
SumRange(cnt, lo, hi) == SumOver(cnt, {b \in NonZero(cnt) : b >= lo /\ b < hi})

\* Variant of AscendingPrefix that adds counts[i] instead of counts[i - 1].
InclusivePrefix(off, cnt, lo, hi) ==
    LET nz == NonZero(cnt)
    IN  [i \in Buckets |->
            IF i >= lo /\ i < hi
            THEN off[lo - 1] + SumOver(cnt, {b \in nz : b >= lo /\ b <= i})
            ELSE off[i]]

\* (lo..hi).for_each(|i| offsets[i] = offsets[i - 1] + counts[i - 1]):
\* offsets[i] = offsets[lo-1] + counts[lo-1] + ... + counts[i-1] for lo <= i < hi.
AscendingPrefix(off, cnt, lo, hi) ==
    LET nz == NonZero(cnt)
    IN  [i \in Buckets |->
            IF i >= lo /\ i < hi
            THEN off[lo - 1] + SumOver(cnt, {b \in nz : b >= lo - 1 /\ b < i})
            ELSE off[i]]

\* (lo..hi).for_each(|i| offsets[NUM_BUCKETS-2-i] =
\*                        offsets[NUM_BUCKETS-1-i] + counts[NUM_BUCKETS-1-i]):
\* with top = NUM_BUCKETS-1-lo, offsets[t] = offsets[top] + counts[t+1] + ... +
\* counts[top] for NUM_BUCKETS-2-hi < t < top.
DescendingPrefix(off, cnt, lo, hi) ==
    LET nz == NonZero(cnt)
        top == NUM_BUCKETS - 1 - lo
    IN  [t \in Buckets |->
            IF t > NUM_BUCKETS - 2 - hi /\ t < top
            THEN off[top] + SumOver(cnt, {b \in nz : b > t /\ b <= top})
            ELSE off[t]]

\* n_iter == num_iters - 1
IsFinalPass(it, num_iters) == it = num_iters - 1

\* The else branch of both engines: plain ascending exclusive prefix sum.
PlainOffsets(off, cnt) ==
    AscendingPrefix([off EXCEPT ![0] = 0], cnt, 1, NUM_BUCKETS)

\* Variant of IntOffsets without the final pass's sign layout.
IntOffsetsNoSign(off, cnt, it, num_iters) == PlainOffsets(off, cnt)

\* The offsets radix_sort_int computes for pass `it`.
IntOffsets(off, cnt, it, num_iters) ==
    IF IsFinalPass(it, num_iters)
    THEN LET o0 == [off EXCEPT ![0] = SumRange(cnt, FIRST_NEG_BUCKET, NUM_BUCKETS)]
             o1 == AscendingPrefix(o0, cnt, 1, FIRST_NEG_BUCKET)
             o2 == [o1 EXCEPT ![FIRST_NEG_BUCKET] = 0]
         IN  AscendingPrefix(o2, cnt, FIRST_NEG_BUCKET + 1, NUM_BUCKETS)
    ELSE PlainOffsets(off, cnt)

\* (FIRST_NEG_BUCKET..NUM_BUCKETS).for_each(|i| offsets[i] += counts[i])
FixNegative(off, cnt) ==
    [b \in Buckets |-> IF b >= FIRST_NEG_BUCKET THEN off[b] + cnt[b] ELSE off[b]]

\* Variant of FloatOffsets that lays the negative buckets out in ascending order.
FloatOffsetsNegAscending(off, cnt, it, num_iters) ==
    FixNegative(IntOffsets(off, cnt, it, num_iters),
                IF IsFinalPass(it, num_iters) THEN cnt ELSE ZeroTable)

\* Variant of FloatOffsets without `offsets[i] += counts[i]` on the negative buckets.
FloatOffsetsNoFix(off, cnt, it, num_iters) ==
    IF IsFinalPass(it, num_iters)
    THEN LET o0 == [off EXCEPT ![0] = SumRange(cnt, FIRST_NEG_BUCKET, NUM_BUCKETS)]
             o1 == AscendingPrefix(o0, cnt, 1, FIRST_NEG_BUCKET)
             o2 == [o1 EXCEPT ![NUM_BUCKETS - 1] = 0]
         IN  DescendingPrefix(o2, cnt, 0, FIRST_NEG_BUCKET - 1)
    ELSE PlainOffsets(off, cnt)

\* The offsets radix_sort_float computes for pass `it`.
FloatOffsets(off, cnt, it, num_iters) ==
    IF IsFinalPass(it, num_iters)
    THEN LET o0 == [off EXCEPT ![0] = SumRange(cnt, FIRST_NEG_BUCKET, NUM_BUCKETS)]
             o1 == AscendingPrefix(o0, cnt, 1, FIRST_NEG_BUCKET)
             o2 == [o1 EXCEPT ![NUM_BUCKETS - 1] = 0]
             o3 == DescendingPrefix(o2, cnt, 0, FIRST_NEG_BUCKET - 1)
         IN  FixNegative(o3, cnt)
    ELSE PlainOffsets(off, cnt)

(***************************************************************************)
(* Scatter.                                                                *)
(***************************************************************************)
\* Variant of SourceIndex that walks vals_buf from its end.
SourceReversed(j, n) == n - 1 - j

\* `for n in &vals_buf`: the index of vals_buf read by the j-th turn of the loop.
SourceIndex(j, n) == j

\* Variant of DecrementsFirst that always writes first and increments after.
NeverDecrements(it, num_iters, b) == FALSE

\* (n_iter == num_iters - 1) && (b >= FIRST_NEG_BUCKET)
DecrementsFirst(it, num_iters, b) ==
    IsFinalPass(it, num_iters) /\ b >= FIRST_NEG_BUCKET

\* Variant of Advance that leaves the offset where it is.
AdvanceNone(off, b) == off

\* offsets[b] += 1
Advance(off, b) == [off EXCEPT ![b] = @ + 1]

\* offsets[b] -= 1 on a usize.  At 0 the subtraction overflows: a build with
\* overflow checks panics, one without wraps to usize::MAX, which -1 stands for
\* (arithmetic on offsets is modulo 2^64 and -1 is congruent to 2^64 - 1).
Retreat(off, b) ==
    IF off[b] = 0
    THEN {[panics |-> TRUE, off |-> off], [panics |-> FALSE, off |-> [off EXCEPT ![b] = -1]]}
    ELSE {[panics |-> FALSE, off |-> [off EXCEPT ![b] = @ - 1]]}

\* *vals.get_unchecked_mut(idx) = n.  Out of bounds the write is undefined
\* behaviour: it lands outside the vector's elements, and what it overwrites
\* may or may not be memory the vector is later read from.
UncheckedWrite(vs, idx, n) ==
    IF idx \in 0 .. (Len(vs) - 1) THEN {[vs EXCEPT ![idx + 1] = n]}
    ELSE {vs} \cup {[vs EXCEPT ![j] = n] : j \in 1..Len(vs)}

(***************************************************************************)
(* The state machine.  pc is the position in the running engine; k counts  *)
(* the turns of the scatter loop taken in the current pass; dest logs, for *)
(* the current pass, each write as [from |-> index read in vals_buf,       *)
(* to |-> index written in vals].                                          *)
(***************************************************************************)
num_iters == ty.size
shift_bits == ShiftBitsOf(n_iter)

\* The state at the head of the loop `for n_iter in 0..num_iters` of the engine
\* the type dispatches to: the tables are zeroed and vals_buf is vals.clone().
Init ==
    /\ ty \in Types
    /\ input \in SeqsUpTo(Values(ty), MaxLen)
    /\ vals = input
    /\ vals_buf = vals
    /\ counts = ZeroTable
    /\ offsets = ZeroTable
    /\ n_iter = 0
    /\ k = 0
    /\ dest = <<>>
    /\ pc = "count"

IntCount ==
    /\ pc = "count" /\ Engine(ty) = "int"
    /\ counts' = CountFrom(ZeroTable, vals, 1, shift_bits)
    /\ pc' = "offsets"
    /\ UNCHANGED <<ty, input, vals, vals_buf, offsets, n_iter, k, dest>>

FloatCount ==
    /\ pc = "count" /\ Engine(ty) = "float"
    /\ counts' = CountFrom(ZeroTable, vals, 1, shift_bits)
    /\ pc' = "offsets"
    /\ UNCHANGED <<ty, input, vals, vals_buf, offsets, n_iter, k, dest>>

IntPrefix ==
    /\ pc = "offsets" /\ Engine(ty) = "int"
    /\ offsets' = IntOffsets(offsets, counts, n_iter, num_iters)
    /\ k' = 0
    /\ pc' = "scatter"
    /\ UNCHANGED <<ty, input, vals, vals_buf, counts, n_iter, dest>>

FloatPrefix ==
    /\ pc = "offsets" /\ Engine(ty) = "float"
    /\ offsets' = FloatOffsets(offsets, counts, n_iter, num_iters)
    /\ k' = 0
    /\ pc' = "scatter"
    /\ UNCHANGED <<ty, input, vals, vals_buf, counts, n_iter, dest>>

IntScatter ==
    /\ pc = "scatter" /\ Engine(ty) = "int"
    /\ k < Len(vals_buf)
    /\ LET src == SourceIndex(k, Len(vals_buf))
           n == vals_buf[src + 1]
           b == to_radix(n, shift_bits)
       IN  /\ vals' \in UncheckedWrite(vals, offsets[b], n)
           /\ offsets' = Advance(offsets, b)
           /\ dest' = Append(dest, [from |-> src, to |-> offsets[b]])
    /\ k' = k + 1
    /\ UNCHANGED <<ty, input, vals_buf, counts, n_iter, pc>>

FloatScatter ==
    /\ pc = "scatter" /\ Engine(ty) = "float"
    /\ k < Len(vals_buf)
    /\ LET src == SourceIndex(k, Len(vals_buf))
           n == vals_buf[src + 1]
           b == to_radix(n, shift_bits)
       IN  IF DecrementsFirst(n_iter, num_iters, b)
           THEN \E o \in Retreat(offsets, b) :
                   IF o.panics
                   THEN /\ pc' = "panic"
                        /\ UNCHANGED <<vals, offsets, dest, k>>
                   ELSE /\ offsets' = o.off
                        /\ vals' \in UncheckedWrite(vals, o.off[b], n)
                        /\ dest' = Append(dest, [from |-> src, to |-> o.off[b]])
                        /\ k' = k + 1
                        /\ pc' = pc
           ELSE /\ vals' \in UncheckedWrite(vals, offsets[b], n)
                /\ offsets' = Advance(offsets, b)
                /\ dest' = Append(dest, [from |-> src, to |-> offsets[b]])
                /\ k' = k + 1
                /\ pc' = pc
    /\ UNCHANGED <<ty, input, vals_buf, counts, n_iter>>

\* vals_buf.copy_from_slice(&vals), and the loop moves to the next pass or ends.
IntCopy ==
    /\ pc = "scatter" /\ Engine(ty) = "int"
    /\ k = Len(vals_buf)
    /\ vals_buf' = vals
    /\ n_iter' = n_iter + 1
    /\ pc' = IF n_iter + 1 < num_iters THEN "count" ELSE "done"
    /\ k' = 0
    /\ dest' = <<>>
    /\ UNCHANGED <<ty, input, vals, counts, offsets>>

FloatCopy ==
    /\ pc = "scatter" /\ Engine(ty) = "float"
    /\ k = Len(vals_buf)
    /\ vals_buf' = vals
    /\ n_iter' = n_iter + 1
    /\ pc' = IF n_iter + 1 < num_iters THEN "count" ELSE "done"
    /\ k' = 0
    /\ dest' = <<>>
    /\ UNCHANGED <<ty, input, vals, counts, offsets>>

Next ==
    \/ IntCount \/ IntPrefix \/ IntScatter \/ IntCopy
    \/ FloatCount \/ FloatPrefix \/ FloatScatter \/ FloatCopy

Spec == Init /\ [][Next]_vars

(***************************************************************************)
(* Orders on bit patterns, read off the patterns byte by byte.             *)
(***************************************************************************)
\* -1, 0, 1 as a is below, equal to, above b on their low i bytes, unsigned.
RECURSIVE UCmp(_, _, _)
UCmp(a, b, i) ==
    IF i = 0 THEN 0
    ELSE IF a[i] < b[i] THEN -1
    ELSE IF a[i] > b[i] THEN 1
    ELSE UCmp(a, b, i - 1)

ULeq(a, b) == UCmp(a, b, Len(a)) <= 0
LowLeq(a, b, nbytes) == UCmp(a, b, nbytes) <= 0
SignSet(a) == a[Len(a)] >= 128

\* Two's complement: negative below non-negative, and within a sign the
\* unsigned order of the patterns.
SLeq(a, b) == IF SignSet(a) # SignSet(b) THEN SignSet(a) ELSE ULeq(a, b)

\* Sign-magnitude: sign-set below sign-clear, sign-set by descending pattern,
\* sign-clear by ascending pattern.
FLeq(a, b) ==
    IF SignSet(a) # SignSet(b) THEN SignSet(a)
    ELSE IF SignSet(a) THEN ULeq(b, a) ELSE ULeq(a, b)

NumLeq(t, a, b) ==
    IF t.kind = "signed" THEN SLeq(a, b)
    ELSE IF t.kind = "unsigned" THEN ULeq(a, b)
    ELSE FLeq(a, b)

Ascending(t, s) ==
    \A i, j \in 1..Len(s) : i < j => NumLeq(t, s[i], s[j])

Occurrences(s, v) == Cardinality({i \in 1..Len(s) : s[i] = v})
Range(s) == {s[i] : i \in 1..Len(s)}

Returned == pc = "done"
PassEnd == pc = "scatter" /\ k = Len(vals_buf)
ScatterStart == pc = "scatter" /\ k = 0
FinalPass == n_iter = ty.size - 1
\* The byte at the current position of the element at index i of vals_buf.
ByteOf(i) == vals_buf[i + 1][n_iter + 1]

(***************************************************************************)
(* C1: radix_sort_int leaves a vector of signed integers in ascending      *)
(* signed order: for all i < j, vals[i] <= vals[j], and every negative     *)
(* value comes before every non-negative value.                            *)
(***************************************************************************)
C1_SignedAscending ==
    (Returned /\ ty.kind = "signed") =>
        \A i, j \in 1..Len(vals) :
            i < j => /\ SLeq(vals[i], vals[j])
                     /\ (SignSet(vals[j]) => SignSet(vals[i]))

C1_Witness ==
    /\ Returned /\ ty.kind = "signed"
    /\ Len(input) = MaxLen
    /\ ~SignSet(input[1]) /\ SignSet(input[2])
    /\ \E i, j \in 1..Len(input) :
          i < j /\ SignSet(input[i]) /\ SignSet(input[j]) /\ ~SLeq(input[i], input[j])

(***************************************************************************)
(* C2: radix_sort_int leaves a vector of unsigned integers, values with    *)
(* the most-significant bit set included, in ascending unsigned order.     *)
(***************************************************************************)
C2_UnsignedAscending ==
    (Returned /\ ty.kind = "unsigned") =>
        \A i, j \in 1..Len(vals) : i < j => ULeq(vals[i], vals[j])

(***************************************************************************)
(* C3: radix_sort_float leaves the bit patterns with every sign-set        *)
(* pattern before every sign-clear one, the sign-set patterns in           *)
(* descending and the sign-clear patterns in ascending order of their      *)
(* unsigned bit pattern, NaN and infinity patterns included.               *)
(***************************************************************************)
C3_FloatAscending ==
    (Returned /\ ty.kind = "float") =>
        \A i, j \in 1..Len(vals) :
            i < j => /\ SignSet(vals[j]) => SignSet(vals[i])
                     /\ (SignSet(vals[i]) /\ SignSet(vals[j])) => ULeq(vals[j], vals[i])
                     /\ (~SignSet(vals[i]) /\ ~SignSet(vals[j])) => ULeq(vals[i], vals[j])

C3_Witness ==
    /\ Returned /\ ty.kind = "float"
    /\ Len(input) = MaxLen
    /\ ~SignSet(input[1]) /\ SignSet(input[2])
    /\ \E i, j \in 1..Len(input) :
          /\ i < j /\ SignSet(input[i]) /\ SignSet(input[j])
          /\ input[i][Len(input[i])] = input[j][Len(input[j])]
          /\ input[i] # input[j] /\ ULeq(input[i], input[j])

(***************************************************************************)
(* C4: the vector either engine leaves has the length of the input and is  *)
(* a permutation of it: every value occurs as often as in the input.       *)
(***************************************************************************)
C4_Permutation ==
    Returned =>
        /\ Len(vals) = Len(input)
        /\ \A v \in Range(input) \cup Range(vals) :
              Occurrences(vals, v) = Occurrences(input, v)

C4_Witness ==
    /\ Returned
    /\ Len(input) = MaxLen
    /\ vals # input
    /\ \E v \in Range(input) : Occurrences(input, v) = 2

(***************************************************************************)
(* C5: for every supported type, an input already in ascending numeric     *)
(* order of its type is returned identical, position by position.          *)
(***************************************************************************)
C5_SortedInputUnchanged ==
    (Returned /\ Ascending(ty, input)) => vals = input

(***************************************************************************)
(* C6: in every pass of both engines every index written by the scatter    *)
(* lies in [0, n), no index is written twice, at the end of the pass every *)
(* index of [0, n) has been written, and the final pass of                 *)
(* radix_sort_float never decrements an offset that is 0.                  *)
(***************************************************************************)
C6_ScatterInBounds ==
    /\ pc # "panic"
    /\ \A i \in 1..Len(dest) : dest[i].to >= 0 /\ dest[i].to < Len(vals)
    /\ \A i, j \in 1..Len(dest) : i # j => dest[i].to # dest[j].to
    /\ PassEnd => {dest[i].to : i \in 1..Len(dest)} = 0 .. (Len(vals) - 1)
    /\ (pc = "scatter" /\ k < Len(vals_buf) /\ Engine(ty) = "float" /\ FinalPass
           /\ ByteOf(k) >= FIRST_NEG_BUCKET)
         => offsets[ByteOf(k)] > 0

C6_Witness ==
    /\ PassEnd /\ Engine(ty) = "float" /\ FinalPass
    /\ Len(vals_buf) = MaxLen
    /\ \E i, j \in 0 .. (Len(vals_buf) - 1) :
          i < j /\ ByteOf(i) = ByteOf(j) /\ ByteOf(i) >= FIRST_NEG_BUCKET
    /\ \E i \in 0 .. (Len(vals_buf) - 1) : ByteOf(i) < FIRST_NEG_BUCKET

(***************************************************************************)
(* C7: every pass of radix_sort_int, the final one included, is stable: of *)
(* two elements of the pass's input buffer with the same byte at the       *)
(* current position, the one earlier in the buffer is written to the lower *)
(* index.                                                                  *)
(***************************************************************************)
C7_IntScatterStable ==
    (pc = "scatter" /\ Engine(ty) = "int") =>
        \A i, j \in 1..Len(dest) :
            (dest[i].from < dest[j].from /\ ByteOf(dest[i].from) = ByteOf(dest[j].from))
                => dest[i].to < dest[j].to

C7_Witness ==
    /\ PassEnd /\ Engine(ty) = "int" /\ FinalPass
    /\ \E i, j \in 0 .. (Len(vals_buf) - 1) :
          /\ i < j /\ ByteOf(i) = ByteOf(j) /\ ByteOf(i) >= FIRST_NEG_BUCKET
          /\ vals_buf[i + 1] # vals_buf[j + 1]
    /\ \E i \in 0 .. (Len(vals_buf) - 1) : ByteOf(i) < FIRST_NEG_BUCKET

(***************************************************************************)
(* C8, as the spec states it: in the final pass of radix_sort_float, of    *)
(* two elements landing in the same negative bucket the one earlier in the *)
(* input buffer is written to the lower index.                             *)
(***************************************************************************)
C8_NegBucketKeepsOrder ==
    (pc = "scatter" /\ Engine(ty) = "float" /\ FinalPass) =>
        \A i, j \in 1..Len(dest) :
            (/\ dest[i].from < dest[j].from
             /\ ByteOf(dest[i].from) = ByteOf(dest[j].from)
             /\ ByteOf(dest[i].from) >= FIRST_NEG_BUCKET)
                => dest[i].to < dest[j].to

(***************************************************************************)
(* C8, amended: in the final pass of radix_sort_float, of two elements     *)
(* landing in the same negative bucket the one earlier in the input buffer *)
(* is written to the higher index: the bucket's input order is reversed.   *)
(***************************************************************************)
C8_NegBucketReversed ==
    (pc = "scatter" /\ Engine(ty) = "float" /\ FinalPass) =>
        \A i, j \in 1..Len(dest) :
            (/\ dest[i].from < dest[j].from
             /\ ByteOf(dest[i].from) = ByteOf(dest[j].from)
             /\ ByteOf(dest[i].from) >= FIRST_NEG_BUCKET)
                => dest[i].to > dest[j].to

C8_Witness ==
    /\ PassEnd /\ Engine(ty) = "float" /\ FinalPass
    /\ \E i, j \in 0 .. (Len(vals_buf) - 1) :
          /\ i < j /\ ByteOf(i) = ByteOf(j) /\ ByteOf(i) >= FIRST_NEG_BUCKET
          /\ vals_buf[i + 1] # vals_buf[j + 1]

\* offsets of buckets 0..127 in the final pass: the negative total, then an
\* ascending prefix sum.
NonNegativeOffsets ==
    /\ offsets[0] = SumRange(counts, FIRST_NEG_BUCKET, NUM_BUCKETS)
    /\ \A b \in 1 .. (FIRST_NEG_BUCKET - 1) : offsets[b] = offsets[b - 1] + counts[b - 1]

(***************************************************************************)
(* C9, as the spec states it: when the scatter of the final pass of        *)
(* radix_sort_float begins, offsets[255] = 0 and offsets[b] =              *)
(* offsets[b+1] + counts[b+1] for b from 254 down to 128, offsets[0] is    *)
(* the total count of buckets 128..255 and offsets[b] = offsets[b-1] +     *)
(* counts[b-1] for b in 1..127.                                            *)
(***************************************************************************)
C9_NegOffsetsAreBucketStarts ==
    (ScatterStart /\ Engine(ty) = "float" /\ FinalPass) =>
        /\ offsets[NUM_BUCKETS - 1] = 0
        /\ \A b \in FIRST_NEG_BUCKET .. (NUM_BUCKETS - 2) :
              offsets[b] = offsets[b + 1] + counts[b + 1]
        /\ NonNegativeOffsets

(***************************************************************************)
(* C9, amended: when the scatter of the final pass of radix_sort_float     *)
(* begins, the offset of a negative bucket is the end of its range in the  *)
(* descending layout: offsets[255] = counts[255] and offsets[b] =          *)
(* offsets[b+1] + counts[b] for b from 254 down to 128; offsets[0] is the  *)
(* total count of buckets 128..255 and offsets[b] = offsets[b-1] +         *)
(* counts[b-1] for b in 1..127.                                            *)
(***************************************************************************)
C9_NegOffsetsAreBucketEnds ==
    (ScatterStart /\ Engine(ty) = "float" /\ FinalPass) =>
        /\ offsets[NUM_BUCKETS - 1] = counts[NUM_BUCKETS - 1]
        /\ \A b \in FIRST_NEG_BUCKET .. (NUM_BUCKETS - 2) :
              offsets[b] = offsets[b + 1] + counts[b]
        /\ NonNegativeOffsets

C9_Witness ==
    /\ ScatterStart /\ Engine(ty) = "float" /\ FinalPass
    /\ counts[NUM_BUCKETS - 1] > 0
    /\ counts[FIRST_NEG_BUCKET] > 0
    /\ counts[0] > 0

(***************************************************************************)
(* C10: in both engines, for a type of w bytes and 0 <= p < w-1, after     *)
(* pass p has completed and vals_buf has been refreshed, vals is in        *)
(* ascending order of the unsigned value of the low 8*(p+1) bits and       *)
(* vals_buf equals vals; and the passes before pass w-1 lay the buckets    *)
(* out in plain ascending order (offsets[0] = 0, offsets[b] =              *)
(* offsets[b-1] + counts[b-1]).                                            *)
(***************************************************************************)
C10_LowBytesSorted ==
    /\ (pc = "count" /\ n_iter >= 1) =>
          /\ n_iter <= ty.size - 1
          /\ vals_buf = vals
          /\ \A i, j \in 1..Len(vals) : i < j => LowLeq(vals[i], vals[j], n_iter)
    /\ (ScatterStart /\ n_iter < ty.size - 1) =>
          /\ offsets[0] = 0
          /\ \A b \in 1 .. (NUM_BUCKETS - 1) : offsets[b] = offsets[b - 1] + counts[b - 1]

C10_Witness ==
    /\ pc = "count" /\ n_iter = 2
    /\ Len(vals) = MaxLen
    /\ vals # input
    /\ \E i, j \in 1..Len(input) :
          i < j /\ input[i][1] < input[j][1] /\ ~LowLeq(input[i], input[j], 2)

====
